---- MODULE Spec2Model ----
(***************************************************************************)
(* The request dispatch pipeline of src/index.js: the lazily created       *)
(* shared pool, the schema-initialization middleware, the router mounts,   *)
(* GET /test-db, GET / and the terminal notFound/errorHandler pair.        *)
(*                                                                         *)
(* Node runs one synchronous segment at a time: `cur` is the request whose *)
(* code is on the stack (0 when the event loop is idle). A request gives   *)
(* up the stack only at an await, and a settled await resumes only when    *)
(* the stack is empty. Requests are those the body parsers accept.         *)
(***************************************************************************)
EXTENDS Integers, Sequences, FiniteSets, Bags, TLC

VARIABLES pool, poolsCreated, schema, borrowed, cur, reqs, cors

vars == <<pool, poolsCreated, schema, borrowed, cur, reqs, cors>>

\* Number of requests admitted in one behaviour (all may be in flight at once).
NumReq == 2

ReqIds == 1..NumReq

\* `let pool;` : the reference is undefined until createPool() succeeded.
NoPool == 0

-----------------------------------------------------------------------------
(* Paths, as sequences of characters.                                      *)

Slash == <<"/">>
SApi == <<"/", "a", "p", "i">>
ApiSlash == SApi \o Slash
SAuth == <<"a", "u", "t", "h">>
SUsers == <<"u", "s", "e", "r", "s">>
SOrganizations == <<"o", "r", "g", "a", "n", "i", "z", "a", "t", "i", "o", "n", "s">>
SJobs == <<"j", "o", "b", "s">>
SJobSeekers == <<"j", "o", "b", "-", "s", "e", "e", "k", "e", "r", "s">>
SHiringManagers == <<"h", "i", "r", "i", "n", "g", "-", "m", "a", "n", "a", "g", "e", "r", "s">>
SCustomFields == <<"c", "u", "s", "t", "o", "m", "-", "f", "i", "e", "l", "d", "s">>
SLeads == <<"l", "e", "a", "d", "s">>
STasks == <<"t", "a", "s", "k", "s">>
SOffices == <<"o", "f", "f", "i", "c", "e", "s">>
STeams == <<"t", "e", "a", "m", "s">>
STestDb == <<"/", "t", "e", "s", "t", "-", "d", "b">>

Api(seg) == ApiSlash \o seg

\* String.prototype.startsWith: case-sensitive, no segment boundary.
StartsWith(s, p) == Len(s) >= Len(p) /\ SubSeq(s, 1, Len(p)) = p

UpperToLower == [c \in {"A", "P", "I", "J", "O", "B", "S", "T", "E", "D"} |->
                   CASE c = "A" -> "a" [] c = "P" -> "p" [] c = "I" -> "i"
                     [] c = "J" -> "j" [] c = "O" -> "o" [] c = "B" -> "b"
                     [] c = "S" -> "s" [] c = "T" -> "t" [] c = "E" -> "e"
                     [] c = "D" -> "d"]

ToLower(s) == [i \in DOMAIN s |-> IF s[i] \in DOMAIN UpperToLower THEN UpperToLower[s[i]] ELSE s[i]]

-----------------------------------------------------------------------------
(* Routing.                                                                *)

\* app.use(prefix, ...): Express matches a mount prefix case-insensitively
\* ("case sensitive routing" is off by default) and only at a segment boundary.
MountMatches(path, prefix) ==
  LET l == ToLower(path) IN
    /\ StartsWith(l, prefix)
    /\ (Len(l) = Len(prefix) \/ l[Len(prefix) + 1] = "/")

\* app.get(route, ...): the whole path, case-insensitively, with an optional
\* trailing slash ("strict routing" is off by default).
RouteMatches(path, route) ==
  LET l == ToLower(path) IN
    l = route \/ (route # Slash /\ l = route \o Slash)

\* One app.use(prefix, sanitizeInputs, ...) line: its prefix, the resource
\* whose controller it constructs, and whether it hands verifyToken and
\* checkRole to the router.
Mount(prefix, resource, guarded) ==
  [prefix |-> prefix, resource |-> resource, guarded |-> guarded]

\* The mounts with /api/organizations built like /api/auth, from the controller
\* alone: the guard is not handed to its router.
MountsGuardDropped == <<
  Mount(Api(SAuth), "auth", FALSE),
  Mount(Api(SUsers), "users", TRUE),
  Mount(Api(SOrganizations), "organizations", FALSE),
  Mount(Api(SJobs), "jobs", TRUE),
  Mount(Api(SJobSeekers), "job-seekers", TRUE),
  Mount(Api(SHiringManagers), "hiring-managers", TRUE),
  Mount(Api(SCustomFields), "custom-fields", TRUE),
  Mount(Api(SLeads), "leads", TRUE),
  Mount(Api(STasks), "tasks", TRUE),
  Mount(Api(SOffices), "offices", TRUE),
  Mount(Api(STeams), "teams", TRUE) >>

\* The mounts with /api/auth built like the others: its router is handed
\* verifyToken and checkRole.
MountsAuthGuarded == <<
  Mount(Api(SAuth), "auth", TRUE),
  Mount(Api(SUsers), "users", TRUE),
  Mount(Api(SOrganizations), "organizations", TRUE),
  Mount(Api(SJobs), "jobs", TRUE),
  Mount(Api(SJobSeekers), "job-seekers", TRUE),
  Mount(Api(SHiringManagers), "hiring-managers", TRUE),
  Mount(Api(SCustomFields), "custom-fields", TRUE),
  Mount(Api(SLeads), "leads", TRUE),
  Mount(Api(STasks), "tasks", TRUE),
  Mount(Api(SOffices), "offices", TRUE),
  Mount(Api(STeams), "teams", TRUE) >>

\* The mounts with /test-db served by a guarded mount as well.
MountsTestDbGuarded == <<
  Mount(Api(SAuth), "auth", FALSE),
  Mount(Api(SUsers), "users", TRUE),
  Mount(Api(SOrganizations), "organizations", TRUE),
  Mount(Api(SJobs), "jobs", TRUE),
  Mount(Api(SJobSeekers), "job-seekers", TRUE),
  Mount(Api(SHiringManagers), "hiring-managers", TRUE),
  Mount(Api(SCustomFields), "custom-fields", TRUE),
  Mount(Api(SLeads), "leads", TRUE),
  Mount(Api(STasks), "tasks", TRUE),
  Mount(Api(SOffices), "offices", TRUE),
  Mount(Api(STeams), "teams", TRUE),
  Mount(STestDb, "test-db", TRUE) >>

\* The router mounts, in registration order.
Mounts == <<
  Mount(Api(SAuth), "auth", FALSE),
  Mount(Api(SUsers), "users", TRUE),
  Mount(Api(SOrganizations), "organizations", TRUE),
  Mount(Api(SJobs), "jobs", TRUE),
  Mount(Api(SJobSeekers), "job-seekers", TRUE),
  Mount(Api(SHiringManagers), "hiring-managers", TRUE),
  Mount(Api(SCustomFields), "custom-fields", TRUE),
  Mount(Api(SLeads), "leads", TRUE),
  Mount(Api(STasks), "tasks", TRUE),
  Mount(Api(SOffices), "offices", TRUE),
  Mount(Api(STeams), "teams", TRUE) >>

\* The first mount whose prefix matches the path (0 when none does).
MatchedMount(path) ==
  LET hits == {i \in DOMAIN Mounts : MountMatches(path, Mounts[i].prefix)} IN
    IF hits = {} THEN 0 ELSE CHOOSE i \in hits : \A j \in hits : i <= j

\* A path test that every path passes: startsWith("/").
SchemaPrefixRoot == Slash

\* The prefix the schema middleware tests req.path against.
SchemaPrefix == ApiSlash

\* The initializers awaited first for every path under /api/.
BaselineInits == <<"office", "team", "auth">>

\* The path-conditional initializers with the /api/jobs block left out.
SpecificInitsNoJobs == <<
  [prefix |-> Api(SOrganizations), resource |-> "organizations"],
  [prefix |-> Api(SHiringManagers), resource |-> "hiring-managers"],
  [prefix |-> Api(SJobSeekers), resource |-> "job-seekers"],
  [prefix |-> Api(SCustomFields), resource |-> "custom-fields"],
  [prefix |-> Api(SLeads), resource |-> "leads"],
  [prefix |-> Api(STasks), resource |-> "tasks"] >>

\* The path-conditional initializers, in the order of the if statements.
SpecificInits == <<
  [prefix |-> Api(SOrganizations), resource |-> "organizations"],
  [prefix |-> Api(SHiringManagers), resource |-> "hiring-managers"],
  [prefix |-> Api(SJobs), resource |-> "jobs"],
  [prefix |-> Api(SJobSeekers), resource |-> "job-seekers"],
  [prefix |-> Api(SCustomFields), resource |-> "custom-fields"],
  [prefix |-> Api(SLeads), resource |-> "leads"],
  [prefix |-> Api(STasks), resource |-> "tasks"] >>

RECURSIVE SpecificFrom(_, _)
SpecificFrom(path, i) ==
  IF i > Len(SpecificInits) THEN <<>>
  ELSE (IF StartsWith(path, SpecificInits[i].prefix)
          THEN <<SpecificInits[i].resource>> ELSE <<>>) \o SpecificFrom(path, i + 1)

\* The initializers the schema middleware awaits for a path, in order, when
\* none of them fails (the empty sequence when the path is not under /api/).
InitList(path) ==
  IF StartsWith(path, SchemaPrefix) THEN BaselineInits \o SpecificFrom(path, 1) ELSE <<>>

-----------------------------------------------------------------------------
(* Collaborators required by index.js.                                     *)

Creds == {"none", "invalid", "admin", "jobseeker"}

\* verifyToken: a missing or invalid bearer credential is Unauthorized.
VerifyToken(cred) == IF cred \in {"admin", "jobseeker"} THEN "ok" ELSE "Unauthorized"

\* The roles the guarded routes allow.
AllowedRoles == {"admin", "hiring_manager"}

\* checkRole: the role of a verified credential against the allowed roles.
CheckRole(cred) == IF cred \in AllowedRoles THEN "ok" ELSE "Forbidden"

\* An initTables() that creates its tables whether or not they exist.
InitTablesBlind(s, name) == s (+) SetToBag({name})

\* A successful initTables(): the tables of the resource are created unless
\* they exist. s is the schema, a bag of the table sets created.
InitTables(s, name) == IF BagIn(name, s) THEN s ELSE s (+) SetToBag({name})

\* errorHandler: the status of an error kind, 500 when unclassified.
ErrorStatus(kind) ==
  CASE kind = "Unauthorized" -> 401
    [] kind = "Forbidden" -> 403
    [] kind = "NotFound" -> 404
    [] kind = "PayloadTooLarge" -> 413
    [] OTHER -> 500

-----------------------------------------------------------------------------
(* The shared pool.                                                        *)

\* getPool() without the `if (!pool)` test: every call constructs a pool.
GetPoolNoMemo(p, n, ok) ==
  IF ok THEN [threw |-> FALSE, pool |-> n + 1, made |-> n + 1, calls |-> 1]
        ELSE [threw |-> TRUE, pool |-> p, made |-> n, calls |-> 1]

\* getPool() with createPool() wrapped in a try/catch that only logs: the
\* caller is handed the unset reference.
GetPoolSwallow(p, n, ok) ==
  IF p = NoPool
    THEN IF ok THEN [threw |-> FALSE, pool |-> n + 1, made |-> n + 1, calls |-> 1]
               ELSE [threw |-> FALSE, pool |-> NoPool, made |-> n, calls |-> 1]
    ELSE [threw |-> FALSE, pool |-> p, made |-> n, calls |-> 0]

\* getPool() that remembers a failed construction: the failure is rethrown to
\* every later caller and createPool() is not called again.
GetPoolCachesFailure(p, n, ok) ==
  IF p = NoPool
    THEN IF ok THEN [threw |-> FALSE, pool |-> n + 1, made |-> n + 1, calls |-> 1]
               ELSE [threw |-> TRUE, pool |-> -1, made |-> n, calls |-> 1]
    ELSE [threw |-> p = -1, pool |-> p, made |-> n, calls |-> 0]

\* getPool(): p is the pool reference, n the number of pools constructed so
\* far, ok whether createPool() would succeed if it were called. The result
\* tells whether the call threw, the pool reference and the number of pools
\* after it, and how often it called createPool().
GetPool(p, n, ok) ==
  IF p = NoPool
    THEN IF ok THEN [threw |-> FALSE, pool |-> n + 1, made |-> n + 1, calls |-> 1]
               ELSE [threw |-> TRUE, pool |-> NoPool, made |-> n, calls |-> 1]
    ELSE [threw |-> FALSE, pool |-> p, made |-> n, calls |-> 0]

-----------------------------------------------------------------------------
(* Requests.                                                               *)

PRoot == Slash
PTestDb == STestDb
POther == <<"/", "x">>
PApiOther == Api(<<"x">>)
PAuth == Api(SAuth)
PUsers == Api(SUsers)
POrganization == Api(SOrganizations) \o <<"/", "1">>
PJobs == Api(SJobs)
PJobsx == Api(SJobs) \o <<"x">>
POffices == Api(SOffices)
PUpperJobs == <<"/", "A", "P", "I", "/">> \o SJobs

\* The requests that arrive, <<path, method, cred>>, in three families.
\* Guarded and unguarded mounts under every kind of credential.
GuardRequests ==
  ({POrganization} \X {"GET"} \X Creds)
    \cup ({PAuth} \X {"POST"} \X {"none"})

\* One request per shape of path the schema middleware and the mounts tell apart.
SchemaRequests ==
  {PUsers, PJobs, PJobsx, POffices, POrganization, PUpperJobs, POther}
    \X {"GET"} \X {"none"}

\* The routes outside the mounts, and paths that nothing takes.
StaticRequests ==
  ({PRoot, PTestDb} \X {"GET"} \X {"none", "invalid", "admin"})
    \cup ({PRoot, PTestDb} \X {"POST"} \X {"none"})
    \cup ({POther, PApiOther, PJobsx, PUpperJobs} \X {"GET"} \X {"none"})

\* One request per place a failure can arise after the schema middleware: the
\* handler of the unguarded mount, the guard of a guarded one, and /test-db.
ErrorRequests ==
  {<<PAuth, "POST", "none">>, <<PUpperJobs, "GET", "none">>, <<PTestDb, "GET", "none">>}

\* The limit of both body parsers, "1mb", in bytes.
BodyLimit == 1048576

\* The content types the two body parsers read: bodyParser.json() and
\* bodyParser.urlencoded(), each with its default `type`.
ParsedTypes == {"application/json", "application/x-www-form-urlencoded"}

\* Requests with a body, <<path, method, cred, content type, size in bytes>>:
\* at the limit and one byte over it, in a parsed and in an unparsed type.
BodyRequests ==
  ({POrganization} \X {"POST"} \X {"admin"} \X {"application/json"}
      \X {BodyLimit, BodyLimit + 1})
    \cup ({POrganization} \X {"POST"} \X {"admin"}
            \X {"application/x-www-form-urlencoded", "text/plain"} \X {BodyLimit + 1})

Requests ==
  GuardRequests \cup SchemaRequests \cup StaticRequests \cup ErrorRequests \cup BodyRequests

Paths == {in[1] : in \in Requests}

\* Per path: the mount that takes it, the initializers it needs and the routes
\* it matches (the operators above, tabulated over the paths that arrive).
MountOf == [p \in Paths |-> MatchedMount(p)]
InitsOf == [p \in Paths |-> InitList(p)]
UnderApi == [p \in Paths |-> StartsWith(p, SchemaPrefix)]
IsTestDb == [p \in Paths |-> RouteMatches(p, STestDb)]
IsRoot == [p \in Paths |-> RouteMatches(p, Slash)]

-----------------------------------------------------------------------------
(* CORS. A string is a sequence of symbols: a comma, a space, or a maximal *)
(* run of other characters.                                                *)

Comma == ","

\* The elements of a sequence.
Elems(seq) == {seq[i] : i \in DOMAIN seq}

\* const allowedOrigins
AllowedOrigins == <<
  <<"http://localhost:3000">>,
  <<"https://ats-orcin.vercel.app">>,
  <<"https://ats-software-frontend.vercel.app">>,
  <<"https://cms-organization.vercel.app">> >>

\* Origins an operator adds, and one nobody lists.
OriginX == <<"https://x.example">>
OriginY == <<"https://y.example">>
OriginZ == <<"https://z.example">>

\* String.prototype.split(sep): the pieces between the separators, in order,
\* empty pieces included and nothing trimmed.
RECURSIVE Split(_, _)
Split(s, sep) ==
  IF \E i \in 1..Len(s) : s[i] = sep
    THEN LET i == CHOOSE k \in 1..Len(s) : s[k] = sep /\ \A j \in 1..(k - 1) : s[j] # sep
         IN <<SubSeq(s, 1, i - 1)>> \o Split(SubSeq(s, i + 1, Len(s)), sep)
    ELSE <<s>>

\* const additionalOrigins: e is process.env.ALLOWED_ORIGINS, <<>> when it is
\* unset or empty (both falsy).
AdditionalOrigins(e) == IF e # <<>> THEN Split(e, Comma) ELSE <<>>

\* An allow-list that leaves ALLOWED_ORIGINS out.
AllOriginsBuiltInOnly(e) == AllowedOrigins

\* const allOrigins
AllOrigins(e) == AllowedOrigins \o AdditionalOrigins(e)

\* The `origin` option handed to cors(): the allow-list in production, true
\* (any origin) otherwise.
CorsOrigin(nodeEnv, e) ==
  IF nodeEnv = "production" THEN [any |-> FALSE, list |-> AllOrigins(e)]
                            ELSE [any |-> TRUE, list |-> <<>>]

\* The `methods` option handed to cors().
CorsMethods == <<"GET", "POST", "PUT", "DELETE", "OPTIONS">>

\* cors: whether a request of this Origin is given Access-Control-Allow-Origin.
IsOriginAllowed(origin, opt) == opt.any \/ \E i \in 1..Len(opt.list) : opt.list[i] = origin

\* The values of NODE_ENV ("" when unset) and of ALLOWED_ORIGINS the process
\* is started with, and the Origin headers that arrive.
NodeEnvs == {"production", "development", ""}
AllowedOriginsEnvs ==
  { <<>>,
    OriginX,
    OriginX \o <<Comma>> \o OriginY,
    OriginX \o <<Comma, " ">> \o OriginY,
    OriginX \o <<Comma>> }
RequestOrigins == Elems(AllowedOrigins) \cup {OriginX, OriginY, OriginZ}

\* The environment, and what cors answered to the last request it saw.
Config(n, e) ==
  [nodeEnv |-> n, allowed |-> e, origin |-> <<>>, allowOrigin |-> <<>>, methods |-> <<>>]

\* The controller class the router function of a mount constructs:
\* getOfficeController for /api/offices, getTeamController for /api/teams, and
\* so on. The schema middleware constructs the class named by each initializer.
ControllerOf(resource) ==
  CASE resource = "offices" -> "office"
    [] resource = "teams" -> "team"
    [] OTHER -> resource

IdleReq ==
  [pc |-> "idle", path |-> <<>>, method |-> "GET", cred |-> "none",
   idx |-> 0, ran |-> <<>>, failed |-> "none", nextCalls |-> 0, nextArg |-> "none",
   trace |-> <<>>, bound |-> {}, err |-> "none",
   status |-> 0, body |-> "none", writes |-> 0, handlerCalls |-> 0,
   poolRes |-> "na", connRes |-> "na", queryRes |-> "na", releases |-> 0,
   ctype |-> "none", size |-> 0, ctrls |-> <<>>, routers |-> 0,
   creates |-> 0]

\* The process as configured by its environment: c holds NODE_ENV and
\* ALLOWED_ORIGINS, and no request has been seen.
ProcessStart(c) ==
  /\ pool = NoPool
  /\ poolsCreated = 0
  /\ schema = EmptyBag
  /\ borrowed = 0
  /\ cur = 0
  /\ reqs = [r \in ReqIds |-> IdleReq]
  /\ cors = c

Init == ProcessStart(Config("development", <<>>))

\* The process under each environment.
InitCors == \E n \in NodeEnvs, e \in AllowedOriginsEnvs : ProcessStart(Config(n, e))

\* res.json / res.status(..).json: one write of the response.
Respond(rec, status, body) ==
  [rec EXCEPT !.status = status, !.body = body, !.writes = @ + 1, !.pc = "done"]

\* next(arg) from the schema middleware: without an argument the request goes
\* on to the routes, with one Express skips to the error handler.
CallNext(rec, arg) ==
  [rec EXCEPT !.nextCalls = @ + 1, !.nextArg = arg,
              !.pc = IF arg = "none" THEN "route" ELSE "error",
              !.err = arg]

\* A catch block that hands the error on: next(error).
SchemaCatchForward(e) == e

\* The catch block of the schema middleware: it logs error.message and falls
\* through to next(), which is called without an argument.
SchemaCatch(e) == "none"

\* Body parsers that read every body whatever its size.
BodyParserNoLimit(ctype, size) == "none"

\* bodyParser.json({limit: "1mb"}) and bodyParser.urlencoded({limit: "1mb"}):
\* a body of a type one of them reads and longer than the limit is refused
\* with next(err); a body of another type is left unread and passed on.
BodyParser(ctype, size) ==
  IF ctype \in ParsedTypes /\ size > BodyLimit THEN "PayloadTooLarge" ELSE "none"

\* The content type and size of an arriving request; a request given without
\* them has no body.
CTypeOf(in) == IF Len(in) >= 5 THEN in[4] ELSE "none"
SizeOf(in) == IF Len(in) >= 5 THEN in[5] ELSE 0

\* A request arrives; helmet, compression, cors, the body parsers and the
\* access logger pass it on synchronously to the schema middleware, unless a
\* body parser refuses the body: then Express skips to the error handler.
Arrive(r, R) ==
  /\ cur = 0
  /\ reqs[r].pc = "idle"
  /\ \A q \in ReqIds : q < r => reqs[q].pc # "idle"
  /\ \E in \in R :
       LET rec == [IdleReq EXCEPT !.path = in[1], !.method = in[2], !.cred = in[3],
                                  !.ctype = CTypeOf(in), !.size = SizeOf(in)]
           e == BodyParser(rec.ctype, rec.size)
       IN reqs' = [reqs EXCEPT ![r] =
                     IF e = "none" THEN [rec EXCEPT !.pc = "schema"]
                                   ELSE [rec EXCEPT !.pc = "error", !.err = e]]
  /\ cur' = r
  /\ UNCHANGED <<pool, poolsCreated, schema, borrowed>>
  /\ UNCHANGED cors

\* The schema middleware up to its first await (or to next()).
SchemaMiddleware(r) ==
  /\ cur = r
  /\ reqs[r].pc = "schema"
  /\ LET rec0 == [reqs[r] EXCEPT !.trace = Append(@, "schema")] IN
       IF ~UnderApi[rec0.path]
         THEN /\ reqs' = [reqs EXCEPT ![r] = CallNext(rec0, "none")]
              /\ UNCHANGED <<pool, poolsCreated, cur>>
         ELSE \E ok \in BOOLEAN :
                LET g == GetPool(pool, poolsCreated, ok)
                    rec == [rec0 EXCEPT !.creates = @ + g.calls]
                IN
                  /\ pool' = g.pool
                  /\ poolsCreated' = g.made
                  /\ IF g.threw
                       THEN /\ reqs' = [reqs EXCEPT ![r] =
                                   CallNext([rec EXCEPT !.failed = "pool"],
                                            SchemaCatch("DependencyError"))]
                            /\ UNCHANGED cur
                       ELSE /\ reqs' = [reqs EXCEPT ![r] =
                                   [rec EXCEPT !.pc = "await_init", !.idx = 1,
                                               !.ran = <<InitsOf[rec.path][1]>>,
                                               !.ctrls = Append(@, InitsOf[rec.path][1]),
                                               !.bound = @ \cup {g.pool}]]
                            /\ cur' = 0
  /\ UNCHANGED <<schema, borrowed>>
  /\ UNCHANGED cors

\* Every initializer in a try block of its own: after a failure the next one
\* is started.
NextAfterFailureOwnTry(idx, n) == IF idx < n THEN idx + 1 ELSE 0

\* The single try block around all initializers: a failure leaves it, and no
\* later initializer is started (0).
NextAfterFailure(idx, n) == 0

\* An awaited initTables() settles: on success the next applicable
\* initializer is started, or next() is called after the last one; on failure
\* the catch block runs and next() is called.
InitSettle(r) ==
  /\ cur = 0
  /\ reqs[r].pc = "await_init"
  /\ LET inits == InitsOf[reqs[r].path]
         idx == reqs[r].idx
         name == inits[idx]
     IN \E ok \in BOOLEAN, ok2 \in BOOLEAN :
          LET rec == IF ok THEN reqs[r] ELSE [reqs[r] EXCEPT !.failed = name]
              nxt == IF ok THEN (IF idx = Len(inits) THEN 0 ELSE idx + 1)
                           ELSE NextAfterFailure(idx, Len(inits))
          IN /\ schema' = IF ok THEN InitTables(schema, name) ELSE schema
             /\ IF nxt = 0
                  THEN /\ reqs' = [reqs EXCEPT ![r] =
                              CallNext(rec, IF ok THEN "none"
                                                  ELSE SchemaCatch("DependencyError"))]
                       /\ cur' = r
                       /\ UNCHANGED <<pool, poolsCreated>>
                  ELSE LET g == GetPool(pool, poolsCreated, ok2) IN
                         /\ pool' = g.pool
                         /\ poolsCreated' = g.made
                         /\ IF g.threw
                              THEN /\ reqs' = [reqs EXCEPT ![r] =
                                          CallNext([rec EXCEPT !.failed = "pool",
                                                               !.creates = @ + g.calls],
                                                   SchemaCatch("DependencyError"))]
                                   /\ cur' = r
                              ELSE /\ reqs' = [reqs EXCEPT ![r] =
                                          [rec EXCEPT !.idx = nxt,
                                                      !.creates = @ + g.calls,
                                                      !.ran = Append(@, inits[nxt]),
                                                      !.ctrls = Append(@, inits[nxt]),
                                                      !.bound = @ \cup {g.pool}]]
                                   /\ cur' = 0
  /\ UNCHANGED borrowed
  /\ UNCHANGED cors

\* A mount that registers sanitizeInputs after the router function.
MountChainSwapped == <<"mount", "sanitize">>

\* The handlers of a mount in the order app.use(prefix, ...) registers them.
MountChain == <<"sanitize", "mount">>

\* app.use(prefix, sanitizeInputs, (req, res, next) => createXRouter(...)(req, res, next)):
\* sanitizeInputs passes the request on; a controller is constructed with
\* getPool() and, on a guarded mount, verifyToken(getPool()) builds the guard;
\* a router is then created from them;
\* a throw goes to the error handler; otherwise the router starts the guard
\* (guarded mounts) or the handler (the auth mount).
RouterMount(r) ==
  /\ cur = r
  /\ reqs[r].pc = "route"
  /\ MountOf[reqs[r].path] # 0
  /\ LET m == Mounts[MountOf[reqs[r].path]]
     IN \E ok1 \in BOOLEAN, ok2 \in BOOLEAN :
          LET g1 == GetPool(pool, poolsCreated, ok1)
              g2 == IF m.guarded /\ ~g1.threw THEN GetPool(g1.pool, g1.made, ok2)
                                               ELSE [g1 EXCEPT !.calls = 0]
              rec == [reqs[r] EXCEPT
                        !.trace = @ \o MountChain,
                        !.creates = @ + g1.calls + g2.calls,
                        !.ctrls = IF g1.threw THEN @ ELSE Append(@, ControllerOf(m.resource)),
                        !.routers = IF g2.threw THEN @ ELSE @ + 1]
          IN /\ pool' = g2.pool
             /\ poolsCreated' = g2.made
             /\ IF g2.threw
                  THEN /\ reqs' = [reqs EXCEPT ![r] =
                              [rec EXCEPT !.pc = "error", !.err = "DependencyError",
                                          !.poolRes = "fail"]]
                       /\ UNCHANGED cur
                  ELSE /\ reqs' = [reqs EXCEPT ![r] =
                              IF m.guarded
                                THEN [rec EXCEPT !.pc = "await_guard", !.poolRes = "ok",
                                                 !.trace = Append(@, "guard"),
                                                 !.bound = @ \cup {g1.pool, g2.pool}]
                                ELSE [rec EXCEPT !.pc = "await_handler", !.poolRes = "ok",
                                                 !.trace = Append(@, "handler"),
                                                 !.handlerCalls = @ + 1,
                                                 !.bound = @ \cup {g1.pool}]]
                       /\ cur' = 0
  /\ UNCHANGED <<schema, borrowed>>
  /\ UNCHANGED cors

\* The Auth Guard settles: verifyToken, then checkRole, then the handler;
\* a rejection goes to the error handler.
GuardSettle(r) ==
  /\ cur = 0
  /\ reqs[r].pc = "await_guard"
  /\ LET rec == reqs[r]
         v == VerifyToken(rec.cred)
         c == CheckRole(rec.cred)
     IN IF v # "ok"
          THEN /\ reqs' = [reqs EXCEPT ![r] = [rec EXCEPT !.pc = "error", !.err = v]]
               /\ cur' = r
          ELSE IF c # "ok"
            THEN /\ reqs' = [reqs EXCEPT ![r] = [rec EXCEPT !.pc = "error", !.err = c]]
                 /\ cur' = r
            ELSE /\ reqs' = [reqs EXCEPT ![r] =
                        [rec EXCEPT !.pc = "await_handler", !.trace = Append(@, "handler"),
                                    !.handlerCalls = @ + 1]]
                 /\ UNCHANGED cur
  /\ UNCHANGED <<pool, poolsCreated, schema, borrowed>>
  /\ UNCHANGED cors

\* A resource handler settles: it answers, or its failure goes to the error handler.
HandlerSettle(r) ==
  /\ cur = 0
  /\ reqs[r].pc = "await_handler"
  /\ \E ok \in BOOLEAN :
       IF ok
         THEN /\ reqs' = [reqs EXCEPT ![r] = Respond(reqs[r], 200, "handler")]
              /\ UNCHANGED cur
         ELSE /\ reqs' = [reqs EXCEPT ![r] =
                     [reqs[r] EXCEPT !.pc = "error", !.err = "InternalError"]]
              /\ cur' = r
  /\ UNCHANGED <<pool, poolsCreated, schema, borrowed>>
  /\ UNCHANGED cors

\* An outer catch that only logs.
TestDbCatchSilent(rec) == [rec EXCEPT !.pc = "done"]

\* The outer catch of GET /test-db.
TestDbCatch(rec) == Respond(rec, 500, "Database error")

\* release() after the query only, not in a finally block.
ReleaseOnSuccess(queryOk) == IF queryOk THEN 1 ELSE 0

\* The finally block of GET /test-db: the number of client.release() calls
\* once a client was borrowed, whether or not the query succeeded.
FinallyRelease(queryOk) == 1

\* GET /test-db up to `await pool.connect()`.
TestDb(r) ==
  /\ cur = r
  /\ reqs[r].pc = "route"
  /\ MountOf[reqs[r].path] = 0
  /\ reqs[r].method = "GET"
  /\ IsTestDb[reqs[r].path]
  /\ LET rec0 == [reqs[r] EXCEPT !.trace = Append(@, "test-db")] IN
       \E ok \in BOOLEAN :
         LET g == GetPool(pool, poolsCreated, ok)
             rec == [rec0 EXCEPT !.creates = @ + g.calls]
         IN
           /\ pool' = g.pool
           /\ poolsCreated' = g.made
           /\ reqs' = [reqs EXCEPT ![r] =
                 IF g.threw
                   THEN TestDbCatch([rec EXCEPT !.poolRes = "fail"])
                   ELSE [rec EXCEPT !.poolRes = "ok", !.pc = "await_connect",
                                    !.bound = @ \cup {g.pool}]]
  /\ cur' = 0
  /\ UNCHANGED <<schema, borrowed>>
  /\ UNCHANGED cors

\* pool.connect() settles: a client is borrowed and the query is sent, or the
\* rejection is caught.
ConnectSettle(r) ==
  /\ cur = 0
  /\ reqs[r].pc = "await_connect"
  /\ \E ok \in BOOLEAN :
       IF ok
         THEN /\ reqs' = [reqs EXCEPT ![r] =
                     [reqs[r] EXCEPT !.connRes = "ok", !.pc = "await_query"]]
              /\ borrowed' = borrowed + 1
         ELSE /\ reqs' = [reqs EXCEPT ![r] = TestDbCatch([reqs[r] EXCEPT !.connRes = "fail"])]
              /\ UNCHANGED borrowed
  /\ UNCHANGED <<pool, poolsCreated, schema, cur>>
  /\ UNCHANGED cors

\* client.query("SELECT NOW()") settles: the time is sent on success; the
\* finally block releases the client; a failure is then caught.
QuerySettle(r) ==
  /\ cur = 0
  /\ reqs[r].pc = "await_query"
  /\ \E ok \in BOOLEAN :
       LET n == FinallyRelease(ok)
           rec == [reqs[r] EXCEPT !.queryRes = IF ok THEN "ok" ELSE "fail",
                                  !.releases = @ + n]
       IN /\ reqs' = [reqs EXCEPT ![r] =
                 IF ok THEN Respond(rec, 200, "time") ELSE TestDbCatch(rec)]
          /\ borrowed' = borrowed - n
  /\ UNCHANGED <<pool, poolsCreated, schema, cur>>
  /\ UNCHANGED cors

\* GET /: the liveness answer.
Root(r) ==
  /\ cur = r
  /\ reqs[r].pc = "route"
  /\ MountOf[reqs[r].path] = 0
  /\ reqs[r].method = "GET"
  /\ ~IsTestDb[reqs[r].path]
  /\ IsRoot[reqs[r].path]
  /\ reqs' = [reqs EXCEPT ![r] =
        Respond([reqs[r] EXCEPT !.trace = Append(@, "root")], 200, "live")]
  /\ cur' = 0
  /\ UNCHANGED <<pool, poolsCreated, schema, borrowed>>
  /\ UNCHANGED cors

\* notFound: no mount and no route took the request.
NotFound(r) ==
  /\ cur = r
  /\ reqs[r].pc = "route"
  /\ MountOf[reqs[r].path] = 0
  /\ ~(reqs[r].method = "GET" /\ IsTestDb[reqs[r].path])
  /\ ~(reqs[r].method = "GET" /\ IsRoot[reqs[r].path])
  /\ reqs' = [reqs EXCEPT ![r] =
        [reqs[r] EXCEPT !.trace = Append(@, "notFound"), !.pc = "error", !.err = "NotFound"]]
  /\ UNCHANGED <<pool, poolsCreated, schema, borrowed, cur>>
  /\ UNCHANGED cors

\* errorHandler: the uniform error answer.
ErrorHandler(r) ==
  /\ cur = r
  /\ reqs[r].pc = "error"
  /\ reqs' = [reqs EXCEPT ![r] =
        Respond([reqs[r] EXCEPT !.trace = Append(@, "errorHandler")],
                ErrorStatus(reqs[r].err), "error")]
  /\ cur' = 0
  /\ UNCHANGED <<pool, poolsCreated, schema, borrowed>>
  /\ UNCHANGED cors

\* The cors middleware answers a request of Origin o.
Cors(o) ==
  /\ cors' = [cors EXCEPT !.origin = o,
                          !.allowOrigin =
                             IF IsOriginAllowed(o, CorsOrigin(cors.nodeEnv, cors.allowed))
                               THEN o ELSE <<>>,
                          !.methods = CorsMethods]
  /\ UNCHANGED <<pool, poolsCreated, schema, borrowed, cur, reqs>>

\* The steps that run the schema middleware and end a request in error.
Common(r) ==
  \/ SchemaMiddleware(r)
  \/ InitSettle(r)
  \/ ErrorHandler(r)

NextGuard ==
  \E r \in ReqIds :
    \/ Arrive(r, GuardRequests)
    \/ Common(r)
    \/ RouterMount(r)
    \/ GuardSettle(r)
    \/ HandlerSettle(r)

NextSchema ==
  \E r \in ReqIds :
    \/ Arrive(r, SchemaRequests)
    \/ Common(r)
    \/ RouterMount(r)
    \/ GuardSettle(r)
    \/ NotFound(r)

NextStatic ==
  \E r \in ReqIds :
    \/ Arrive(r, StaticRequests)
    \/ Common(r)
    \/ RouterMount(r)
    \/ GuardSettle(r)
    \/ TestDb(r)
    \/ ConnectSettle(r)
    \/ QuerySettle(r)
    \/ Root(r)
    \/ NotFound(r)

NextBody ==
  \E r \in ReqIds :
    \/ Arrive(r, BodyRequests)
    \/ Common(r)
    \/ RouterMount(r)
    \/ GuardSettle(r)
    \/ HandlerSettle(r)

NextErrors ==
  \E r \in ReqIds :
    \/ Arrive(r, ErrorRequests)
    \/ Common(r)
    \/ RouterMount(r)
    \/ GuardSettle(r)
    \/ HandlerSettle(r)
    \/ TestDb(r)
    \/ ConnectSettle(r)
    \/ QuerySettle(r)

NextCors == \E o \in RequestOrigins : Cors(o)

\* Requests to the mounts, with and without credentials.
SpecGuard == Init /\ [][NextGuard]_vars

\* Requests that differ in path only.
SpecSchema == Init /\ [][NextSchema]_vars

\* Requests to GET /, GET /test-db and to paths no route takes.
SpecStatic == Init /\ [][NextStatic]_vars

\* Requests with bodies at and over the limit of the body parsers.
SpecBody == Init /\ [][NextBody]_vars

\* Requests that can fail in a handler, in the guard and in /test-db.
SpecErrors == Init /\ [][NextErrors]_vars

\* Cross-origin requests under each environment.
SpecCors == InitCors /\ [][NextCors]_vars

-----------------------------------------------------------------------------
(* Properties.                                                             *)

InFlight(q) == q.pc \notin {"idle", "done"}

\* The request has left the schema middleware (next() was called).
PastSchema(q) == q.pc \notin {"idle", "schema", "await_init"}

GuardedPath(p) == MountOf[p] # 0 /\ Mounts[MountOf[p]].guarded

\* C1: however the getPool() calls of in-flight requests (schema middleware,
\* router mounts, GET /test-db) interleave, createPool() succeeds at most
\* once, the pool reference is that one pool from then on, and every pool a
\* controller, a guard or /test-db was handed is that same pool.
C1_PoolConstructedOnce ==
  /\ poolsCreated <= 1
  /\ pool \in {NoPool, poolsCreated}
  /\ \A r \in ReqIds : reqs[r].bound \subseteq {pool} \ {NoPool}

\* Two requests in flight at once, one in the schema middleware or behind a
\* mount and one in /test-db, both holding the shared pool.
C1_Witness ==
  \E r1, r2 \in ReqIds :
    /\ reqs[r1].pc \in {"await_init", "await_guard"}
    /\ reqs[r2].pc = "await_connect"
    /\ reqs[r1].bound = {pool}
    /\ reqs[r2].bound = {pool}
    /\ pool # NoPool

\* The prefixes whose routers are handed verifyToken and checkRole.
GuardedPrefixes ==
  {Api(seg) : seg \in {SUsers, SOrganizations, SJobs, SJobSeekers, SHiringManagers,
                       SCustomFields, SLeads, STasks, SOffices, STeams}}

\* The paths that lead to a guarded route.
GuardedRoutes == {p \in Paths : \E pre \in GuardedPrefixes : MountMatches(p, pre)}

\* The request is to a guarded route.
ToGuardedRoute(q) == q.path \in GuardedRoutes

\* C2 as stated: every request to a guarded route without a valid bearer
\* credential is answered 401 and its handler is never invoked.
C2_Unauthenticated401 ==
  \A r \in ReqIds :
    LET q == reqs[r] IN
      (q.pc # "idle" /\ ToGuardedRoute(q) /\ q.cred \in {"none", "invalid"})
        => /\ q.handlerCalls = 0
           /\ q.pc = "done" => q.status = 401

\* C2 amended: for every request to a guarded route without a valid bearer
\* credential the handler is never invoked; the answer is 401 when the mount
\* got the pool for the controller and the guard, and 500 when createPool()
\* threw at the mount.
C2_UnauthenticatedRejected ==
  \A r \in ReqIds :
    LET q == reqs[r] IN
      (q.pc # "idle" /\ ToGuardedRoute(q) /\ q.cred \in {"none", "invalid"})
        => /\ q.handlerCalls = 0
           /\ q.pc = "done" => q.status = (IF q.poolRes = "fail" THEN 500 ELSE 401)
           /\ q.pc = "done" => q.body = "error"

\* A request without a header answered 500 because the pool could not be
\* built, then one with an invalid token answered 401.
C2_Witness ==
  /\ reqs[1].pc = "done" /\ ToGuardedRoute(reqs[1]) /\ reqs[1].cred = "none"
  /\ reqs[1].status = 500
  /\ reqs[2].pc = "done" /\ ToGuardedRoute(reqs[2]) /\ reqs[2].cred = "invalid"
  /\ reqs[2].status = 401

\* C3 as stated: every request to a guarded route with a valid credential
\* whose role is outside the allowed roles is answered 403 and its handler is
\* not invoked.
C3_WrongRole403 ==
  \A r \in ReqIds :
    LET q == reqs[r] IN
      (q.pc # "idle" /\ ToGuardedRoute(q) /\ q.cred = "jobseeker")
        => /\ q.handlerCalls = 0
           /\ q.pc = "done" => q.status = 403

\* C3 amended: for every request to a guarded route with a valid credential
\* whose role is outside the allowed roles the handler is not invoked; the
\* answer is 403 when the mount got the pool, and 500 when createPool() threw
\* at the mount.
C3_WrongRoleRejected ==
  \A r \in ReqIds :
    LET q == reqs[r] IN
      (q.pc # "idle" /\ ToGuardedRoute(q) /\ q.cred = "jobseeker")
        => /\ q.handlerCalls = 0
           /\ q.pc = "done" => q.status = (IF q.poolRes = "fail" THEN 500 ELSE 403)
           /\ q.pc = "done" => q.body = "error"

\* A jobseeker token answered 403 while an admin token on the same route
\* reached the handler.
C3_Witness ==
  \E r1, r2 \in ReqIds :
    /\ reqs[r1].pc = "done" /\ ToGuardedRoute(reqs[r1]) /\ reqs[r1].cred = "jobseeker"
    /\ reqs[r1].status = 403
    /\ reqs[r2].path = reqs[r1].path /\ reqs[r2].cred = "admin"
    /\ reqs[r2].handlerCalls = 1

\* C4: in the schema middleware a failing initializer, or a failing
\* controller or pool construction, is caught: next() is called exactly once
\* and without an error, the schema middleware never answers the request, and
\* the request goes on to sanitizeInputs and its router (or to notFound).
C4_InitFailureSwallowed ==
  \A r \in ReqIds :
    LET q == reqs[r] IN
      /\ q.nextCalls <= 1
      /\ q.pc \in {"schema", "await_init"} => q.nextCalls = 0 /\ q.writes = 0
      /\ PastSchema(q) => q.nextCalls = 1 /\ q.nextArg = "none"
      /\ (q.pc = "done" /\ q.failed # "none")
           => /\ Len(q.trace) >= 3
              /\ q.trace[1] = "schema"
              /\ IF MountOf[q.path] # 0
                   THEN SubSeq(q.trace, 2, 3) = <<"sanitize", "mount">>
                   ELSE q.trace[2] = "notFound" /\ q.status = 404

\* One request whose pool construction failed in the schema middleware and
\* one whose team initializer failed, both carried on to their mount.
C4_Witness ==
  \E r1, r2 \in ReqIds :
    /\ reqs[r1].pc = "done" /\ reqs[r1].failed = "pool"
    /\ reqs[r2].pc = "done" /\ reqs[r2].failed = "team"
    /\ MountOf[reqs[r1].path] # 0 /\ MountOf[reqs[r2].path] # 0
    /\ reqs[r2].status = 401

\* The initializer of each mounted resource.
OwnInit(resource) ==
  CASE resource = "offices" -> "office"
    [] resource = "teams" -> "team"
    [] OTHER -> resource

IsPrefix(a, b) == Len(a) <= Len(b) /\ SubSeq(b, 1, Len(a)) = a

\* C5 as stated: once a request has left the schema middleware, the baseline
\* initializers have run if its path starts with /api/, the own initializer
\* of the mounted resource its path matches has run, and no initializer has
\* run if its path does not start with /api/.
C5_InitializersRun ==
  \A r \in ReqIds :
    LET q == reqs[r] IN
      PastSchema(q) =>
        /\ UnderApi[q.path] => Elems(BaselineInits) \subseteq Elems(q.ran)
        /\ (MountOf[q.path] # 0 /\ Mounts[MountOf[q.path]].guarded)
             => OwnInit(Mounts[MountOf[q.path]].resource) \in Elems(q.ran)
        /\ ~UnderApi[q.path] => q.ran = <<>>

\* The initializers the schema middleware is to start for each path that arrives.
C5_Expected(p) ==
  CASE p \in {PUsers, POffices, PApiOther, PAuth} -> <<"office", "team", "auth">>
    [] p \in {PJobs, PJobsx} -> <<"office", "team", "auth", "jobs">>
    [] p = POrganization -> <<"office", "team", "auth", "organizations">>
    [] OTHER -> <<>>

\* C5 amended: for a path that starts with /api/ (as written, lower case) the
\* initializers are started in the order office, team, auth, then the one
\* whose prefix the path starts with (organizations, hiring-managers, jobs,
\* job-seekers, custom-fields, leads, tasks; /api/users has none of its own),
\* each only after the ones before it succeeded, and all of them before the
\* request reaches its router when none fails; for any other path, also one
\* that a mount takes case-insensitively, no initializer is started.
C5_InitializersInOrder ==
  \A r \in ReqIds :
    LET q == reqs[r] IN
      /\ IsPrefix(q.ran, C5_Expected(q.path))
      /\ (PastSchema(q) /\ q.failed = "none") => q.ran = C5_Expected(q.path)
      /\ (PastSchema(q) /\ q.failed \notin {"none", "pool"})
           => q.ran # <<>> /\ q.ran[Len(q.ran)] = q.failed
      /\ (PastSchema(q) /\ q.failed = "pool") => q.ran = <<>>
      /\ \A i \in 1..(Len(q.ran) - 1) : BagIn(q.ran[i], schema)

\* A request to /api/jobs behind its mount with all four initializers run,
\* and a request to /API/jobs behind the same mount with none.
C5_Witness ==
  \E r1, r2 \in ReqIds :
    /\ reqs[r1].path = PJobs /\ reqs[r1].pc = "await_guard" /\ reqs[r1].failed = "none"
    /\ reqs[r1].ran = <<"office", "team", "auth", "jobs">>
    /\ reqs[r2].path = PUpperJobs /\ reqs[r2].pc = "await_guard"
    /\ reqs[r2].ran = <<>>

\* GET / or GET /test-db.
StaticGet(q) == q.pc # "idle" /\ q.method = "GET" /\ q.path \in {PRoot, PTestDb}

\* C6 as stated: GET / and GET /test-db always succeed.
C6_AlwaysSucceed ==
  \A r \in ReqIds :
    LET q == reqs[r] IN
      (StaticGet(q) /\ q.pc = "done") => q.status = 200

\* C6 amended: GET / and GET /test-db never pass through the Auth Guard, GET /
\* is always answered 200, GET /test-db is answered 200 exactly when
\* getPool(), connect and query all succeed, and two such requests that differ
\* only in the Authorization header and meet the same database outcomes get
\* the same response.
C6_AuthIndependent ==
  /\ \A r \in ReqIds :
       LET q == reqs[r] IN
         StaticGet(q) =>
           /\ \A i \in DOMAIN q.trace : q.trace[i] \notin {"mount", "guard"}
           /\ q.pc = "done" /\ q.path = PRoot => q.status = 200
           /\ q.pc = "done" /\ q.path = PTestDb
                => (q.status = 200 <=> (q.poolRes = "ok" /\ q.connRes = "ok" /\ q.queryRes = "ok"))
  /\ \A r1, r2 \in ReqIds :
       LET a == reqs[r1]
           b == reqs[r2]
       IN (/\ StaticGet(a) /\ StaticGet(b) /\ a.pc = "done" /\ b.pc = "done"
           /\ a.path = b.path
           /\ <<a.poolRes, a.connRes, a.queryRes>> = <<b.poolRes, b.connRes, b.queryRes>>)
            => a.status = b.status /\ a.body = b.body /\ a.writes = b.writes

\* GET /test-db without a header and with an invalid token, both answered 200.
C6_Witness ==
  /\ reqs[1].pc = "done" /\ reqs[1].path = PTestDb /\ reqs[1].method = "GET"
  /\ reqs[1].cred = "none" /\ reqs[1].status = 200
  /\ reqs[2].pc = "done" /\ reqs[2].path = PTestDb /\ reqs[2].method = "GET"
  /\ reqs[2].cred = "invalid" /\ reqs[2].status = 200

\* The paths under /api/, as Express matches them.
ApiPaths == {p \in Paths : StartsWith(ToLower(p), ApiSlash)}

\* The path is under /api/ or the request is GET /test-db.
TouchesPool(q) ==
  \/ q.path \in ApiPaths
  \/ (q.method = "GET" /\ IsTestDb[q.path])

\* C7: GET / never calls getPool() and is answered 200 with the liveness
\* message in every state, also while no pool exists and after createPool()
\* failed for earlier requests; the pool reference is unset until a request
\* under /api/ or to GET /test-db has arrived.
C7_RootNeverTouchesPool ==
  /\ \A r \in ReqIds :
       LET q == reqs[r] IN
         (q.pc # "idle" /\ q.method = "GET" /\ q.path = PRoot)
           => /\ q.bound = {} /\ q.poolRes = "na" /\ q.ran = <<>>
              /\ q.pc = "done" => q.status = 200 /\ q.body = "live" /\ q.writes = 1
  /\ pool # NoPool => \E r \in ReqIds : reqs[r].pc # "idle" /\ TouchesPool(reqs[r])

\* GET /test-db failed because createPool() threw, and a later GET / is
\* answered 200 with the pool still unset.
C7_Witness ==
  /\ reqs[1].pc = "done" /\ reqs[1].path = PTestDb /\ reqs[1].poolRes = "fail"
  /\ reqs[1].status = 500
  /\ reqs[2].pc = "done" /\ reqs[2].path = PRoot /\ reqs[2].method = "GET"
  /\ reqs[2].status = 200
  /\ pool = NoPool

\* The paths no mount prefix matches.
UnmountedPaths == {p \in Paths : \A i \in DOMAIN Mounts : ~MountMatches(p, Mounts[i].prefix)}

\* Neither a mount nor GET / nor GET /test-db takes the request.
Unrouted(q) ==
  /\ q.pc # "idle"
  /\ q.path \in UnmountedPaths
  /\ ~(q.method = "GET" /\ (IsRoot[q.path] \/ IsTestDb[q.path]))

Oversized(q) == q.pc # "idle" /\ q.size > BodyLimit

\* The request went from the body parsers straight to the error handler: the
\* schema middleware, sanitizeInputs, the Auth Guard and the handlers never ran.
StraightToError(q) ==
  /\ q.pc \in {"error", "done"}
  /\ Elems(q.trace) \subseteq {"errorHandler"}
  /\ q.ran = <<>> /\ q.bound = {} /\ q.nextCalls = 0 /\ q.handlerCalls = 0
  /\ q.err = "PayloadTooLarge"
  /\ q.pc = "done" => q.body = "error" /\ q.writes = 1 /\ q.trace = <<"errorHandler">>

\* C11 as stated: every request whose body exceeds the 1mb limit is refused by
\* the body parser before the schema middleware, sanitizeInputs, the Auth
\* Guard or any handler runs, and goes straight to the error handler.
C11_OversizedRejected ==
  \A r \in ReqIds : Oversized(reqs[r]) => StraightToError(reqs[r])

\* C11, amended: every request whose body is JSON or urlencoded and exceeds
\* the 1mb limit goes straight from the body parser to the error handler; no
\* other request is refused by the body parsers (a body of exactly the limit,
\* and a longer body of a type neither parser reads, are passed on).
C11_ParsedOversizedRejected ==
  \A r \in ReqIds :
    LET q == reqs[r] IN
      /\ Oversized(q) /\ q.ctype \in ParsedTypes => StraightToError(q)
      /\ q.err = "PayloadTooLarge" => Oversized(q) /\ q.ctype \in ParsedTypes

\* An oversized JSON body was answered by the error handler while a JSON body
\* of exactly the limit reached its handler.
C11_Witness ==
  \E r1, r2 \in ReqIds :
    /\ reqs[r1].ctype = "application/json" /\ reqs[r1].size = BodyLimit + 1
    /\ reqs[r1].pc = "done" /\ reqs[r1].trace = <<"errorHandler">>
    /\ reqs[r2].ctype = "application/json" /\ reqs[r2].size = BodyLimit
    /\ reqs[r2].handlerCalls = 1

\* The place of each stage in the chain of a request to a mount.
StageRank ==
  [st \in {"schema", "sanitize", "mount", "guard", "handler", "notFound", "errorHandler"} |->
     CASE st = "schema" -> 1
       [] st = "sanitize" -> 2
       [] st = "mount" -> 3
       [] st = "guard" -> 4
       [] st = "handler" -> 5
       [] st = "notFound" -> 6
       [] st = "errorHandler" -> 7]

\* C12: for each request to a mounted /api/ prefix the stages run in the order
\* schema middleware, sanitizeInputs, router (Auth Guard, then handler), error
\* handler, each at most once: sanitizeInputs starts only when no initializer
\* is awaited any more (all applicable ones ran and succeeded, or one failed
\* and was caught), the guard and the handler start only after the schema
\* middleware and with the pool constructed, and on a guarded mount the
\* handler starts only after the guard. Nothing orders two requests.
C12_StagesInOrder ==
  \A r \in ReqIds :
    LET q == reqs[r] IN
      q.pc # "idle" =>
        /\ \A i \in 1..(Len(q.trace) - 1) :
             StageRank[q.trace[i]] < StageRank[q.trace[i + 1]]
        /\ q.trace # <<>> => q.trace[1] = "schema"
        /\ "sanitize" \in Elems(q.trace) =>
             /\ q.pc \notin {"schema", "await_init"}
             /\ q.nextCalls = 1
             /\ q.failed # "none" \/ q.ran = InitsOf[q.path]
        /\ "mount" \in Elems(q.trace) => "sanitize" \in Elems(q.trace)
        /\ Elems(q.trace) \cap {"guard", "handler"} # {} =>
             /\ "mount" \in Elems(q.trace)
             /\ pool # NoPool /\ q.bound = {pool}
        /\ "handler" \in Elems(q.trace) /\ ToGuardedRoute(q) => "guard" \in Elems(q.trace)
        /\ q.pc = "done" => q.trace[Len(q.trace)] \in {"handler", "errorHandler"}

\* A request that arrived second has run every stage up to its handler and
\* was answered while the request that arrived first still awaits an initializer.
C12_Witness ==
  \E r1, r2 \in ReqIds :
    /\ r1 < r2
    /\ reqs[r1].pc = "await_init"
    /\ reqs[r2].pc = "done"
    /\ reqs[r2].trace = <<"schema", "sanitize", "mount", "guard", "handler">>

\* C13: a createPool() failure reaches the caller of getPool() and is not
\* swallowed: no controller, guard or handler is ever handed a missing pool,
\* and a request whose mount could not get the pool ends in the error
\* response 500 without its guard or handler having run; a request answered
\* by a handler got the pool.
C13_PoolFailurePropagates ==
  \A r \in ReqIds :
    LET q == reqs[r] IN
      /\ NoPool \notin q.bound
      /\ q.poolRes = "fail" =>
           /\ q.pc \in {"error", "done"}
           /\ q.handlerCalls = 0
           /\ Elems(q.trace) \cap {"guard", "handler"} = {}
           /\ q.pc = "done" => q.status = 500 /\ q.body = "error" /\ q.writes = 1
      /\ q.pc \in {"await_guard", "await_handler"} \/ q.handlerCalls > 0 =>
           q.poolRes = "ok" /\ pool # NoPool /\ q.bound = {pool}
      /\ q.status = 200 => q.poolRes = "ok"

\* A request whose pool construction failed in the schema middleware and again
\* at its mount was answered 500, with the pool still unset.
C13_Witness ==
  \E r \in ReqIds :
    /\ reqs[r].failed = "pool"
    /\ reqs[r].poolRes = "fail"
    /\ reqs[r].pc = "done"
    /\ reqs[r].status = 500
    /\ pool = NoPool

\* The paths the /api/auth mount takes.
AuthRoutes == {p \in Paths : MountMatches(p, Api(SAuth))}

\* C14: a request to /api/auth/* that carries no credential is never handed
\* to the Auth Guard and never rejected by it: after the schema middleware and
\* sanitizeInputs its mount starts the auth handler at once, unless pool
\* construction failed there.
C14_AuthBypassesGuard ==
  \A r \in ReqIds :
    LET q == reqs[r] IN
      q.pc # "idle" /\ q.path \in AuthRoutes /\ q.cred = "none" =>
        /\ "guard" \notin Elems(q.trace)
        /\ q.pc # "await_guard"
        /\ q.err \notin {"Unauthorized", "Forbidden"}
        /\ q.status \notin {401, 403}
        /\ "mount" \in Elems(q.trace) /\ q.poolRes = "ok" =>
             /\ q.handlerCalls = 1
             /\ IsPrefix(<<"schema", "sanitize", "mount", "handler">>, q.trace)

\* A request to /api/auth without a credential was answered by the auth
\* handler after its three initializers ran.
C14_Witness ==
  \E r \in ReqIds :
    /\ reqs[r].path = PAuth
    /\ reqs[r].cred = "none"
    /\ reqs[r].ran = <<"office", "team", "auth">>
    /\ reqs[r].failed = "none"
    /\ reqs[r].pc = "done"
    /\ reqs[r].status = 200
    /\ reqs[r].body = "handler"

\* The entries of each ALLOWED_ORIGINS value, written out: what lies between
\* its commas, spaces and empty entries kept.
C15_Entries(e) ==
  CASE e = <<>> -> {}
    [] e = OriginX -> {OriginX}
    [] e = OriginX \o <<Comma>> \o OriginY -> {OriginX, OriginY}
    [] e = OriginX \o <<Comma, " ">> \o OriginY -> {OriginX, <<" ">> \o OriginY}
    [] e = OriginX \o <<Comma>> -> {OriginX, <<>>}

\* C15: a cross-origin request is given Access-Control-Allow-Origin (its own
\* origin) exactly when NODE_ENV is not "production" or its origin is one of
\* the four built-in origins or an entry of ALLOWED_ORIGINS split at its
\* commas; the methods allowed are exactly GET, POST, PUT, DELETE, OPTIONS.
C15_CorsAllowList ==
  cors.origin # <<>> =>
    /\ cors.allowOrigin \in {cors.origin, <<>>}
    /\ cors.allowOrigin = cors.origin <=>
         \/ cors.nodeEnv # "production"
         \/ cors.origin \in { <<"http://localhost:3000">>,
                               <<"https://ats-orcin.vercel.app">>,
                               <<"https://ats-software-frontend.vercel.app">>,
                               <<"https://cms-organization.vercel.app">> }
         \/ cors.origin \in C15_Entries(cors.allowed)
    /\ Elems(cors.methods) = {"GET", "POST", "PUT", "DELETE", "OPTIONS"}
    /\ Len(cors.methods) = 5

\* In production an origin that only ALLOWED_ORIGINS lists, as its second
\* entry, was allowed.
C15_Witness ==
  /\ cors.nodeEnv = "production"
  /\ cors.allowed = OriginX \o <<Comma>> \o OriginY
  /\ cors.origin = OriginY
  /\ cors.allowOrigin = OriginY

\* The initializers that have succeeded for a request.
Succeeded(q) ==
  IF q.pc = "await_init" \/ q.failed \notin {"none", "pool"}
    THEN {q.ran[i] : i \in 1..(Len(q.ran) - 1)}
    ELSE Elems(q.ran)

Count(seq, x) == Cardinality({i \in DOMAIN seq : seq[i] = x})

\* The controllers of a class, and the routers, constructed by requests 1..n.
RECURSIVE ControllersMade(_, _)
ControllersMade(n, class) ==
  IF n = 0 THEN 0 ELSE Count(reqs[n].ctrls, class) + ControllersMade(n - 1, class)

RECURSIVE RoutersMade(_, _)
RoutersMade(n, resource) ==
  IF n = 0 THEN 0
  ELSE (IF reqs[n].routers > 0 /\ MountOf[reqs[n].path] # 0
           /\ Mounts[MountOf[reqs[n].path]].resource = resource
          THEN reqs[n].routers ELSE 0) + RoutersMade(n - 1, resource)

\* C17 as stated: the controller of a resource is constructed once per
\* process and reused by every later request, and so is its router: however
\* many requests arrive, at most one instance of each exists.
C17_ControllerOncePerProcess ==
  /\ \A class \in {"office", "team", "auth", "users", "organizations", "jobs"} :
       ControllersMade(NumReq, class) <= 1
  /\ \A resource \in {"users", "organizations", "jobs", "offices"} :
       RoutersMade(NumReq, resource) <= 1

\* Something failed for the request after the schema middleware.
FailedInRoute(q) ==
  \/ q.err \in {"Unauthorized", "Forbidden", "InternalError", "DependencyError"}
  \/ "fail" \in {q.poolRes, q.connRes, q.queryRes}

\* The error handler answered the request.
ByErrorHandler(q) ==
  /\ q.trace # <<>> /\ q.trace[Len(q.trace)] = "errorHandler"
  /\ q.body = "error" /\ q.writes = 1
  /\ q.status = ErrorStatus(q.err)

\* C18 as stated: every failure of a route handler or of the Auth Guard ends
\* in errorHandler, which alone writes the error response: every answered
\* request for which something failed in its route, and every error response,
\* was written by errorHandler.
C18_AllErrorsViaErrorHandler ==
  \A r \in ReqIds :
    LET q == reqs[r] IN
      q.pc = "done" /\ (FailedInRoute(q) \/ q.status >= 400) => ByErrorHandler(q)

\* C18, amended: failures of the Auth Guard, of the mounts and of the resource
\* handlers end in errorHandler, which writes their error response; GET
\* /test-db is the exception: its own catch answers 500 "Database error" and
\* errorHandler never runs for it; failures of the schema middleware are not
\* handed on at all.
C18_ErrorsViaErrorHandlerButTestDb ==
  \A r \in ReqIds :
    LET q == reqs[r] IN
      /\ q.pc = "done" /\ (FailedInRoute(q) \/ q.status >= 400) =>
           IF q.path = PTestDb /\ q.method = "GET"
             THEN /\ q.status = 500 /\ q.body = "Database error" /\ q.writes = 1
                  /\ q.trace = <<"schema", "test-db">>
                  /\ q.err = "none"
             ELSE ByErrorHandler(q)
      /\ q.pc = "error" => q.err # "none" /\ q.writes = 0
      /\ q.failed # "none" /\ PastSchema(q) => q.nextArg = "none"

\* GET /test-db answered a failed connect itself, and a failed auth handler
\* was answered by errorHandler.
C18_Witness ==
  \E r1, r2 \in ReqIds :
    /\ reqs[r1].path = PTestDb /\ reqs[r1].connRes = "fail"
    /\ reqs[r1].pc = "done" /\ reqs[r1].status = 500
    /\ "errorHandler" \notin Elems(reqs[r1].trace)
    /\ reqs[r2].path = PAuth /\ reqs[r2].err = "InternalError"
    /\ reqs[r2].pc = "done" /\ reqs[r2].status = 500
    /\ reqs[r2].trace = <<"schema", "sanitize", "mount", "handler", "errorHandler">>

\* C19: within one /api/ request the initializers are started one at a time
\* in the fixed order office, team, auth and then the path-specific one; when
\* one of them fails it is the last one started for the request, whatever
\* comes after it in the order is skipped, and the request still goes on to
\* the routes with next() called once and without an error.
C19_FailureSkipsRest ==
  \A r \in ReqIds :
    LET q == reqs[r] IN
      q.pc # "idle" /\ UnderApi[q.path] =>
        /\ IsPrefix(q.ran, BaselineInits) \/ IsPrefix(BaselineInits, q.ran)
        /\ IsPrefix(q.ran, InitsOf[q.path])
        /\ q.pc = "await_init" => q.idx = Len(q.ran) /\ q.failed = "none"
        /\ q.failed \notin {"none", "pool"} =>
             /\ q.ran # <<>> /\ q.ran[Len(q.ran)] = q.failed
             /\ q.pc \notin {"schema", "await_init"}
             /\ q.nextCalls = 1 /\ q.nextArg = "none"
             /\ q.pc = "done" => "sanitize" \in Elems(q.trace) \/ "notFound" \in Elems(q.trace)

\* A request to /api/jobs whose team initializer failed was answered by its
\* mount without the auth and jobs initializers having been started.
C19_Witness ==
  \E r \in ReqIds :
    /\ reqs[r].path = PJobs
    /\ reqs[r].failed = "team"
    /\ reqs[r].ran = <<"office", "team">>
    /\ reqs[r].pc = "done"
    /\ "mount" \in Elems(reqs[r].trace)

\* The getPool() calls of a request that threw: one in the schema middleware
\* (caught there) and one at its mount.
PoolFailures(q) ==
  (IF q.failed = "pool" THEN 1 ELSE 0) + (IF q.poolRes = "fail" THEN 1 ELSE 0)

\* The createPool() calls, and the getPool() calls that threw, of requests 1..n.
RECURSIVE CreateCalls(_)
CreateCalls(n) == IF n = 0 THEN 0 ELSE reqs[n].creates + CreateCalls(n - 1)

RECURSIVE FailedCalls(_)
FailedCalls(n) == IF n = 0 THEN 0 ELSE PoolFailures(reqs[n]) + FailedCalls(n - 1)

\* C20: getPool() neither retries nor caches a failure. Every createPool()
\* call either constructed the pool or threw to its caller; as long as none
\* has succeeded the pool is unset; a request whose getPool() threw in the
\* schema middleware calls createPool() a second time at its mount, and no
\* request calls it more than twice; once a call has succeeded the pool is
\* kept and handed to every later caller.
C20_NoRetryNoFailureCache ==
  /\ CreateCalls(NumReq) = poolsCreated + FailedCalls(NumReq)
  /\ poolsCreated = 0 => pool = NoPool
  /\ poolsCreated > 0 => pool = poolsCreated /\ poolsCreated = 1
  /\ \A r \in ReqIds :
       LET q == reqs[r] IN
         /\ q.creates <= 2
         /\ q.failed = "pool" /\ q.poolRes # "na" => q.creates = 2
         /\ q.failed = "pool" /\ q.poolRes = "ok" => pool # NoPool /\ q.bound = {pool}
         /\ q.bound # {} => q.bound = {pool}

\* A request whose createPool() threw in the schema middleware called it again
\* at its mount, with success, and reached its handler; a second request was
\* handed that pool without calling createPool().
C20_Witness ==
  \E r1, r2 \in ReqIds :
    /\ reqs[r1].failed = "pool"
    /\ reqs[r1].creates = 2
    /\ reqs[r1].poolRes = "ok"
    /\ reqs[r1].handlerCalls = 1
    /\ reqs[r2].creates = 0
    /\ reqs[r2].bound = {pool}

====
